---- MODULE Spec2Model ----
(***************************************************************************)
(* A model of the bounded-capacity priority queue of guilib (src/src/pq.c). *)
(*                                                                         *)
(* The C heap is modelled by three stores, each a sequence indexed by the  *)
(* address malloc returned (addresses are never reused, so a dangling      *)
(* pointer stays distinguishable from a live one):                         *)
(*   pqs    the struct _pq_t blocks                                        *)
(*   arrs   the handle arrays (pq->arr), indexed 0..size-1 as in C          *)
(*   nodes  the _pq_node_t wrappers                                        *)
(* calls[n] counts the invocations of the caller's free_func on the value  *)
(* of node n.  Every public function is one action; its body is a pure     *)
(* operator over the record [pqs, arrs, nodes, calls].                     *)
(*   aborted, stderr  abort() was called, after the diagnostic in stderr   *)
(*   lastOp           the last call, its arguments and its results         *)
(*   undefined        the process dereferenced a null or dangling pointer: *)
(*                    what it does from there on is not defined            *)
(*   input, output    the values a heap-sort caller inserts and the values *)
(*                    pq_remove returned to it (SortSpec only)             *)
(*   hts              the struct _ht_t blocks of src/src/ht.c (HtSpec only) *)
(*   loop             the position of a call inside its loop, iteration by  *)
(*                    iteration (LoopSpec only)                             *)
(***************************************************************************)
EXTENDS Integers, Sequences, FiniteSets

VARIABLES pqs, arrs, nodes, calls, aborted, stderr, undefined, lastOp, input,
          output, hts, loop

vars == <<pqs, arrs, nodes, calls, aborted, stderr, undefined, lastOp, input,
          output, hts, loop>>

(* ------------------------------ bounds --------------------------------- *)
MaxQueues == 2
MaxNodes == 3
MaxSize == 3
MaxVal == 2
SortMaxLen == 4
SortMaxVal == 3
HeapMaxNodes == 5
HeapMaxVal == 2
HtMaxTables == 3
HtMaxSize == 3
LoopMaxLen == 9

(* ----------------------------- constants ------------------------------- *)
NULL == 0
\* the content of a slot of a malloc'ed array that was never written; the
\* code reads such a slot only through memcpy, never as a pointer
JUNK == 0

\* no call is inside a loop
LoopIdle == [pc |-> "idle", op |-> "none", idx |-> 0, len |-> 0]

Values == 1..MaxVal
\* the comparators a caller passes to pq_create: ascending and descending
\* integer order, both total preorders
Comparators == {"asc", "desc"}

compare(func, a, b) == IF func = "asc" THEN a - b ELSE b - a

(* ------------------------------ macros --------------------------------- *)
UP(i) == (i - 1) \div 2
LEFT(i) == 2 * i + 1
RIGHT(i) == LEFT(i) + 1

Heap == [pqs |-> pqs, arrs |-> arrs, nodes |-> nodes, calls |-> calls]

FreedPq == [st |-> "freed", len |-> 0, size |-> 0, compare |-> "asc", arr |-> NULL]
FreedArr == [st |-> "freed", slots |-> <<>>]
FreedNode == [st |-> "freed", copies |-> 0, val |-> NULL]

\* the handle array of queue q
ArrOf(h, q) == h.arrs[h.pqs[q].arr].slots
\* the value of the node in slot i of a handle array
ValAt(h, slots, i) == h.nodes[slots[i]].val

(* ------------------------- _sift_down, _sift_up ------------------------ *)
sift_down(slots, idx, is_left) ==
    LET child_idx == IF is_left THEN LEFT(idx) ELSE RIGHT(idx)
    IN  [slots EXCEPT ![idx] = slots[child_idx], ![child_idx] = slots[idx]]

sift_up(slots, i) ==
    [slots EXCEPT ![i] = slots[UP(i)], ![UP(i)] = slots[i]]

(* ------------------------------ pq_create ------------------------------ *)
pq_create(h, size, func) ==
    LET a == Len(h.arrs) + 1
    IN  [h EXCEPT
           !.pqs = Append(@, [st |-> "live", len |-> 0, size |-> size,
                              compare |-> func, arr |-> a]),
           !.arrs = Append(@, [st |-> "live",
                               slots |-> [i \in 0..(size - 1) |-> JUNK]])]

(* ------------------------------ pq_destroy ----------------------------- *)
\* faulty variant: releases while one other reference is left
destroy_last_le1(copies) == copies <= 1

\* faulty variant: releases whatever the count
destroy_last_always(copies) == TRUE

\* `!--pq->arr[i]->copies`: the node is released when the decremented count
\* is zero
destroy_last(copies) == copies = 0

\* faulty variant: the callback is never invoked
destroy_invoke_never(free_func, count) == count

\* `if (free_func) free_func((void *)pq->arr[i]->val)`: the number of
\* invocations on the value after this one
destroy_invoke(free_func, count) == IF free_func THEN count + 1 ELSE count

RECURSIVE destroy_loop(_, _, _, _, _)
destroy_loop(h, slots, len, i, free_func) ==
    IF i < len
    THEN LET n == slots[i]
             c == h.nodes[n].copies - 1
             h1 == IF destroy_last(c)
                   THEN [h EXCEPT
                           !.calls[n] = destroy_invoke(free_func, @),
                           !.nodes[n] = FreedNode]
                   ELSE [h EXCEPT !.nodes[n].copies = c]
         IN  destroy_loop(h1, slots, len, i + 1, free_func)
    ELSE h

\* faulty variant: the struct is left allocated
destroy_free_none(pq) == pq

\* `free(pq)`
destroy_free(pq) == FreedPq

pq_destroy(h, q, free_func) ==
    LET pq == h.pqs[q]
        h1 == destroy_loop(h, ArrOf(h, q), pq.len, 0, free_func)
    IN  [h1 EXCEPT !.arrs[pq.arr] = FreedArr, !.pqs[q] = destroy_free(pq)]

(* ------------------------------- pq_copy ------------------------------- *)
\* faulty variant: the array of the source is shared
copy_arr_alias(fresh, src_arr) == src_arr

\* `pq_ptr->arr = malloc(...)`: the new queue has an array of its own
copy_arr(fresh, src_arr) == fresh

\* faulty variant: the capacity is the length of the source
copy_size_len(src_size, src_len) == src_len

\* `pq_ptr->size = source_pq->size`
copy_size(src_size, src_len) == src_size

\* faulty variant: the length is the capacity of the source
copy_len_size(src_size, src_len) == src_size

\* `pq_ptr->len = source_pq->len`
copy_len(src_size, src_len) == src_len

\* faulty variant: the count is not incremented
copy_count_none(copies) == copies

\* `pq_ptr->arr[i]->copies++`
copy_count(copies) == copies + 1

RECURSIVE copy_loop(_, _, _, _, _)
copy_loop(h, a, src_slots, len, i) ==
    IF i < len
    THEN LET n == src_slots[i]
             h1 == [h EXCEPT !.arrs[a].slots[i] = n,
                             !.nodes[n].copies = copy_count(@)]
         IN  copy_loop(h1, a, src_slots, len, i + 1)
    ELSE h

\* the new queue is block Len(h.pqs) + 1
pq_copy(h, source_pq) ==
    LET src == h.pqs[source_pq]
        fresh == Len(h.arrs) + 1
        a == copy_arr(fresh, src.arr)
        h1 == [h EXCEPT
                 !.arrs = Append(@, [st |-> "live",
                                     slots |-> [i \in 0..(src.size - 1) |-> JUNK]]),
                 !.pqs = Append(@, [st |-> "live",
                                    len |-> copy_len(src.size, src.len),
                                    size |-> copy_size(src.size, src.len),
                                    compare |-> src.compare,
                                    arr |-> a])]
        h2 == copy_loop(h1, a, h1.arrs[src.arr].slots, src.len, 0)
    IN  \* memcpy of source_pq->size handles, unwritten and stale slots included
        [h2 EXCEPT !.arrs[a].slots =
            [i \in DOMAIN @ |-> IF i < src.size THEN h2.arrs[src.arr].slots[i] ELSE @[i]]]

(* ------------------------------ pq_is_empty ---------------------------- *)
pq_is_empty(h, q) == h.pqs[q].len = 0

pq_len(h, q) == h.pqs[q].len

pq_size(h, q) == h.pqs[q].size

(* ------------------------------- pq_insert ----------------------------- *)
\* faulty variant: off by one
insert_full_ge(len, size) == len + 1 >= size

\* `pq->len + 1 > pq->size`
insert_full(len, size) == len + 1 > size

\* faulty variant: the comparison is reversed
insert_cond_gt(h, func, i_node, slots, idx) ==
    idx > 0 /\ compare(func, h.nodes[i_node].val, ValAt(h, slots, UP(idx))) > 0

\* faulty variant: the new node also climbs past a parent it ties with
insert_cond_le(h, func, i_node, slots, idx) ==
    idx > 0 /\ compare(func, h.nodes[i_node].val, ValAt(h, slots, UP(idx))) <= 0

\* the condition of the sift-up loop
insert_cond(h, func, i_node, slots, idx) ==
    idx > 0 /\ compare(func, h.nodes[i_node].val, ValAt(h, slots, UP(idx))) < 0

RECURSIVE insert_loop(_, _, _, _, _)
insert_loop(h, func, i_node, slots, idx) ==
    IF insert_cond(h, func, i_node, slots, idx)
    THEN insert_loop(h, func, i_node, sift_up(slots, idx), UP(idx))
    ELSE slots

\* the iterations of the same loop, in order: idx and the array at the top
\* of the iteration, and the array after its _sift_up
RECURSIVE insert_trace(_, _, _, _, _)
insert_trace(h, func, i_node, slots, idx) ==
    IF insert_cond(h, func, i_node, slots, idx)
    THEN LET swapped == sift_up(slots, idx)
         IN  <<[idx |-> idx, slots |-> slots, swapped |-> swapped]>>
                 \o insert_trace(h, func, i_node, swapped, UP(idx))
    ELSE <<>>

\* faulty variant: the new node is born with a second reference
insert_node_shared(i) == [st |-> "alloc", copies |-> 2, val |-> i]

\* `i_node = malloc(...); i_node->copies = 1; i_node->val = i`
insert_node(i) == [st |-> "alloc", copies |-> 1, val |-> i]

\* the path past both checks; the new node is block Len(h.nodes) + 1
pq_insert(h, q, i) ==
    LET pq == h.pqs[q]
        idx == pq.len
        i_node == Len(h.nodes) + 1
        h1 == [h EXCEPT
                 !.nodes = Append(@, insert_node(i)),
                 !.calls = Append(@, 0)]
        \* QUEUE(pq->arr, pq->len, i_node)
        h2 == [h1 EXCEPT !.arrs[pq.arr].slots[idx] = i_node,
                         !.pqs[q].len = @ + 1]
    IN  [h2 EXCEPT !.arrs[pq.arr].slots =
            insert_loop(h2, pq.compare, i_node, @, idx)]

(* -------------------------------- pq_peek ------------------------------ *)
\* `!pq->len`
peek_empty(len) == len = 0

\* faulty variant: the value of the last occupied slot
pq_peek_last(h, q) == ValAt(h, ArrOf(h, q), h.pqs[q].len - 1)

\* the path past both checks: `pq->arr[0]->val`
pq_peek(h, q) == ValAt(h, ArrOf(h, q), 0)

(* ------------------------------- pq_remove ----------------------------- *)
\* faulty variant: a queue of one node counts as empty
remove_empty_le1(len) == len <= 1

\* `!pq->len`
remove_empty(len) == len = 0

\* faulty variant: a child that ties with the node also counts
remove_cond_ge(h, func, slots, len, idx) ==
    \/ LEFT(idx) < len
       /\ compare(func, ValAt(h, slots, idx), ValAt(h, slots, LEFT(idx))) >= 0
    \/ RIGHT(idx) < len
       /\ compare(func, ValAt(h, slots, idx), ValAt(h, slots, RIGHT(idx))) >= 0

\* the condition of the sift-down loop
remove_cond(h, func, slots, len, idx) ==
    \/ LEFT(idx) < len
       /\ compare(func, ValAt(h, slots, idx), ValAt(h, slots, LEFT(idx))) > 0
    \/ RIGHT(idx) < len
       /\ compare(func, ValAt(h, slots, idx), ValAt(h, slots, RIGHT(idx))) > 0

\* faulty variant: the comparison is reversed
remove_is_left_gt(h, func, slots, len, idx) ==
    \/ RIGHT(idx) >= len
    \/ compare(func, ValAt(h, slots, LEFT(idx)), ValAt(h, slots, RIGHT(idx))) > 0

\* faulty variant: the left child also wins a tie
remove_is_left_le(h, func, slots, len, idx) ==
    \/ RIGHT(idx) >= len
    \/ compare(func, ValAt(h, slots, LEFT(idx)), ValAt(h, slots, RIGHT(idx))) <= 0

remove_is_left(h, func, slots, len, idx) ==
    \/ RIGHT(idx) >= len
    \/ compare(func, ValAt(h, slots, LEFT(idx)), ValAt(h, slots, RIGHT(idx))) < 0

RECURSIVE remove_loop(_, _, _, _, _)
remove_loop(h, func, slots, len, idx) ==
    IF remove_cond(h, func, slots, len, idx)
    THEN LET is_left == remove_is_left(h, func, slots, len, idx)
         IN  remove_loop(h, func, sift_down(slots, idx, is_left), len,
                         IF is_left THEN LEFT(idx) ELSE RIGHT(idx))
    ELSE slots

\* the iterations of the same loop, in order: idx and the array at the top
\* of the iteration, and the array after its _sift_down
RECURSIVE remove_trace(_, _, _, _, _)
remove_trace(h, func, slots, len, idx) ==
    IF remove_cond(h, func, slots, len, idx)
    THEN LET is_left == remove_is_left(h, func, slots, len, idx)
             swapped == sift_down(slots, idx, is_left)
         IN  <<[idx |-> idx, slots |-> slots, swapped |-> swapped]>>
                 \o remove_trace(h, func, swapped, len,
                                 IF is_left THEN LEFT(idx) ELSE RIGHT(idx))
    ELSE <<>>

\* faulty variant: two references are dropped
remove_count_two(copies) == copies - 2

\* faulty variant: the count is left as it was
remove_count_none(copies) == copies

\* `top_val->copies--`: the wrapper is never freed here
remove_count(copies) == copies - 1

\* the path past both checks: [h |-> the heap after, ret |-> the value returned]
pq_remove(h, q) ==
    LET pq == h.pqs[q]
        slots == ArrOf(h, q)
        \* DEQUEUE(pq->arr, pq->len)
        top_val == slots[0]
        len == pq.len - 1
        h1 == [h EXCEPT !.pqs[q].len = len]
        h2 == IF len = 0
              THEN h1
              ELSE [h1 EXCEPT !.arrs[pq.arr].slots =
                      remove_loop(h1, pq.compare, [slots EXCEPT ![0] = slots[len]], len, 0)]
    IN  [h |-> [h2 EXCEPT !.nodes[top_val].copies = remove_count(@)],
         ret |-> h.nodes[top_val].val]

(* ------------------------------- pq_print ------------------------------ *)
\* a caller's to_str: the decimal rendering of a one-digit value
Digits == <<"0", "1", "2", "3", "4", "5", "6", "7", "8", "9">>
to_str(v) == Digits[v + 1]

\* faulty variant: the loop drains the queue itself
print_cp_pq(cp, pq) == pq

\* the queue the loop of pq_print drains
print_cp(cp, pq) == cp

\* faulty variant: a separator follows every element
print_sep_always(len) == TRUE

\* `!pq_len(cp) ? "%s" : "%s "`: a space follows unless the copy is drained
print_sep(len) == len # 0

\* [h |-> the heap after, out |-> what printf has written so far]
RECURSIVE print_loop(_, _, _)
print_loop(h, cp, out) ==
    IF ~pq_is_empty(h, cp)
    THEN LET r == pq_remove(h, cp)
             str == to_str(r.ret)
         IN  print_loop(r.h, cp,
                        IF print_sep(pq_len(r.h, cp))
                        THEN out \o <<str, " ">>
                        ELSE out \o <<str>>)
    ELSE [h |-> h, out |-> out]

\* the path past both checks.  The transient copy is the last block of pqs
\* and of arrs; it is freed before pq_print returns and no handle to it
\* survives, so the freed blocks are dropped from the stores.
pq_print(h, q) ==
    LET cp == Len(h.pqs) + 1
        r == print_loop(pq_copy(h, q), print_cp(cp, q), <<>>)
        h1 == pq_destroy(r.h, cp, FALSE)
    IN  [h |-> [h1 EXCEPT !.pqs = SubSeq(@, 1, Len(h.pqs)),
                          !.arrs = SubSeq(@, 1, Len(h.arrs))],
         out |-> r.out]

(* ------------------------------------------------------------------------ *)
(* The program: a caller that holds the handles of the queues it created    *)
(* and calls the public functions in any order.  lastOp records the last    *)
(* call: its queue, its argument, the value it returned and what it printed. *)
(* ------------------------------------------------------------------------ *)
Op(op, q, arg, ret, out) ==
    [op |-> op, q |-> q, arg |-> arg, ret |-> ret, out |-> out]

Live == {q \in DOMAIN pqs : pqs[q].st = "live"}
\* the queues pq_destroy has freed; the caller still has their handles
Freed == {q \in DOMAIN pqs : pqs[q].st = "freed"}
\* the handles a caller passes: a live queue, a null pointer or the dangling
\* handle of a destroyed queue
Handles == Live \cup {NULL} \cup Freed
\* the process is running: it has not aborted nor left defined behaviour
Running == ~aborted /\ ~undefined
\* the last call came back to its caller
Returned == ~aborted /\ ~undefined

Init ==
    /\ pqs = <<>>
    /\ arrs = <<>>
    /\ nodes = <<>>
    /\ calls = <<>>
    /\ aborted = FALSE
    /\ stderr = ""
    /\ undefined = FALSE
    /\ hts = <<>>
    /\ loop = LoopIdle
    /\ lastOp = Op("init", NULL, NULL, NULL, <<>>)
    /\ input = <<>>
    /\ output = <<>>

\* fprintf(stderr, ...); abort();  The process ends: no action follows.
Abort(op, q, msg) ==
    /\ aborted' = TRUE
    /\ stderr' = msg
    /\ lastOp' = Op(op, q, NULL, NULL, <<>>)
    /\ UNCHANGED <<pqs, arrs, nodes, calls, undefined>>

\* what a build can do with a dereference of a null pointer, or with a read
\* of a freed struct _pq_t: the process is killed by a signal, or it goes on
\* with whatever the read produced; on freed memory the garbage may also
\* send it into one of the abort paths
NullDeref == {"SIGSEGV", "continues"}
DanglingDeref == {"SIGSEGV", "continues", "aborts"}

\* the call dereferences q, which points to no live struct _pq_t; out records
\* the outcome, and nothing that follows is modelled
Undefined(op, q, arg, outcomes) ==
    /\ undefined' = TRUE
    /\ \E o \in outcomes : lastOp' = Op(op, q, arg, NULL, <<o>>)
    /\ UNCHANGED <<pqs, arrs, nodes, calls, aborted, stderr>>

Return(h, op, q, arg, ret, out) ==
    /\ pqs' = h.pqs
    /\ arrs' = h.arrs
    /\ nodes' = h.nodes
    /\ calls' = h.calls
    /\ lastOp' = Op(op, q, arg, ret, out)
    /\ UNCHANGED <<aborted, stderr, undefined>>

\* at most maxq queues are created, of capacity 0..maxsize
CallCreate(maxq, maxsize) ==
    \E size \in 0..maxsize, func \in Comparators \cup {"NULL"} :
        IF func = "NULL"
        THEN Abort("create", NULL,
                   "pq_error: Compare function must not be nullptr")
        ELSE /\ Len(pqs) < maxq
             /\ Return(pq_create(Heap, size, func), "create", NULL, size,
                       Len(pqs) + 1, <<>>)

CallCopy(maxq) ==
    \E q \in Handles :
        IF q = NULL
        THEN Abort("copy", q, "pq_error: Trying to copy from nullptr")
        ELSE IF q \in Freed
        THEN Undefined("copy", q, NULL, DanglingDeref)
        ELSE /\ Len(pqs) < maxq
             /\ Return(pq_copy(Heap, q), "copy", q, NULL, Len(pqs) + 1, <<>>)

\* at most maxn nodes are allocated, of values in vals
CallInsert(maxn, vals) ==
    \E q \in Handles, i \in vals :
        IF q = NULL
        THEN Abort("insert", q, "pq_error: Trying to insert to nullptr")
        ELSE IF q \in Freed
        THEN Undefined("insert", q, NULL, DanglingDeref)
        ELSE IF insert_full(pqs[q].len, pqs[q].size)
        THEN Abort("insert", q, "pq_error: New length is greater than pq size")
        ELSE /\ Len(nodes) < maxn
             /\ Return(pq_insert(Heap, q, i), "insert", q, i, NULL, <<>>)

CallPeek ==
    \E q \in Handles :
        IF q = NULL
        THEN Abort("peek", q, "pq_error: Trying to peek in nullptr")
        ELSE IF q \in Freed
        THEN Undefined("peek", q, NULL, DanglingDeref)
        ELSE IF peek_empty(pqs[q].len)
        THEN Abort("peek", q, "pq_error: Trying to access element in empty pq")
        ELSE Return(Heap, "peek", q, NULL, pq_peek(Heap, q), <<>>)

CallRemove ==
    \E q \in Handles :
        IF q = NULL
        THEN Abort("remove", q, "pq_error: Trying to remove from nullptr")
        ELSE IF q \in Freed
        THEN Undefined("remove", q, NULL, DanglingDeref)
        ELSE IF remove_empty(pqs[q].len)
        THEN Abort("remove", q, "pq_error: Trying to remove element from empty pq")
        ELSE LET r == pq_remove(Heap, q)
             IN  Return(r.h, "remove", q, NULL, r.ret, <<>>)

\* arg records whether a free_func was passed, ret the number of occupied
\* slots the call walked and out the nodes on whose value it invoked
\* free_func, in order
\* pq_destroy has no null check: `pq->len` is its first step
CallDestroy ==
    \E q \in Handles, free_func \in BOOLEAN :
        IF q = NULL
        THEN Undefined("destroy", q, free_func, NullDeref)
        ELSE IF q \in Freed
        THEN Undefined("destroy", q, free_func, DanglingDeref)
        ELSE LET h == pq_destroy(Heap, q, free_func)
                 slots == ArrOf(Heap, q)
                 walked == [k \in 1..pqs[q].len |-> slots[k - 1]]
                 Invoked(n) == h.calls[n] > calls[n]
             IN  Return(h, "destroy", q, free_func, pqs[q].len,
                        SelectSeq(walked, Invoked))

\* pq_is_empty has no null check either; ret is the char it returns
CallIsEmpty ==
    \E q \in Handles :
        IF q = NULL
        THEN Undefined("is_empty", q, NULL, NullDeref)
        ELSE IF q \in Freed
        THEN Undefined("is_empty", q, NULL, DanglingDeref)
        ELSE Return(Heap, "is_empty", q, NULL,
                    IF pq_is_empty(Heap, q) THEN 1 ELSE 0, <<>>)

CallLen ==
    \E q \in Handles :
        IF q = NULL
        THEN Abort("len", q, "pq_error: Trying to get len from nullptr")
        ELSE IF q \in Freed
        THEN Undefined("len", q, NULL, DanglingDeref)
        ELSE Return(Heap, "len", q, NULL, pq_len(Heap, q), <<>>)

CallSize ==
    \E q \in Handles :
        IF q = NULL
        THEN Abort("size", q, "pq_error: Trying to get size from nullptr")
        ELSE IF q \in Freed
        THEN Undefined("size", q, NULL, DanglingDeref)
        ELSE Return(Heap, "size", q, NULL, pq_size(Heap, q), <<>>)

\* has_to_str: whether a to_str was passed
CallPrint ==
    \E q \in Handles, has_to_str \in BOOLEAN :
        IF q = NULL
        THEN Abort("print", q, "pq_error: Trying to print nullptr")
        ELSE IF ~has_to_str
        THEN Abort("print", q, "pq_error: Must provide a print function")
        ELSE IF q \in Freed
        THEN Undefined("print", q, NULL, DanglingDeref)
        ELSE LET r == pq_print(Heap, q)
             IN  Return(r.h, "print", q, NULL, NULL, r.out)

PqCreate == Running /\ CallCreate(MaxQueues, MaxSize) /\ UNCHANGED <<input, output, hts, loop>>
PqCopy == Running /\ CallCopy(MaxQueues) /\ UNCHANGED <<input, output, hts, loop>>
PqInsert == Running /\ CallInsert(MaxNodes, Values) /\ UNCHANGED <<input, output, hts, loop>>
PqPeek == Running /\ CallPeek /\ UNCHANGED <<input, output, hts, loop>>
PqRemove == Running /\ CallRemove /\ UNCHANGED <<input, output, hts, loop>>
PqDestroy == Running /\ CallDestroy /\ UNCHANGED <<input, output, hts, loop>>
PqPrint == Running /\ CallPrint /\ UNCHANGED <<input, output, hts, loop>>
PqIsEmpty == Running /\ CallIsEmpty /\ UNCHANGED <<input, output, hts, loop>>
PqLen == Running /\ CallLen /\ UNCHANGED <<input, output, hts, loop>>
PqSize == Running /\ CallSize /\ UNCHANGED <<input, output, hts, loop>>

Next ==
    \/ PqCreate
    \/ PqCopy
    \/ PqInsert
    \/ PqPeek
    \/ PqRemove
    \/ PqDestroy
    \/ PqPrint
    \/ PqIsEmpty
    \/ PqLen
    \/ PqSize

Spec == Init /\ [][Next]_vars

(* ------------------------------------------------------------------------ *)
(* One queue under any sequence of pq_insert and pq_remove: deeper heaps    *)
(* than Spec reaches.                                                       *)
(* ------------------------------------------------------------------------ *)
HeapCreate == Running /\ CallCreate(1, HeapMaxNodes) /\ UNCHANGED <<input, output, hts, loop>>
HeapInsert == Running /\ CallInsert(HeapMaxNodes, 1..HeapMaxVal) /\ UNCHANGED <<input, output, hts, loop>>
HeapRemove == Running /\ CallRemove /\ UNCHANGED <<input, output, hts, loop>>

HeapNext ==
    \/ HeapCreate
    \/ HeapInsert
    \/ HeapRemove

HeapSpec == Init /\ [][HeapNext]_vars

(* ------------------------------------------------------------------------ *)
(* Heap sort: a caller creates one queue, inserts the values of `input` in  *)
(* order, then removes until the queue is empty; `output` collects what     *)
(* pq_remove returned.                                                      *)
(* ------------------------------------------------------------------------ *)
SortExample == <<5, 3, 8, 1, 9>>

SortInputs ==
    {SortExample} \cup UNION {[1..n -> 1..SortMaxVal] : n \in 0..SortMaxLen}

SortInit ==
    /\ pqs = <<>>
    /\ arrs = <<>>
    /\ nodes = <<>>
    /\ calls = <<>>
    /\ aborted = FALSE
    /\ stderr = ""
    /\ undefined = FALSE
    /\ hts = <<>>
    /\ loop = LoopIdle
    /\ lastOp = Op("init", NULL, NULL, NULL, <<>>)
    /\ input \in SortInputs
    /\ output = <<>>

\* n <= capacity
SortCreate ==
    /\ Len(pqs) = 0
    /\ \E size \in {Len(input), Len(input) + 1}, func \in Comparators :
          Return(pq_create(Heap, size, func), "create", NULL, size, 1, <<>>)
    /\ UNCHANGED <<input, output, hts, loop>>

SortInsert ==
    /\ Len(pqs) = 1
    /\ Len(nodes) < Len(input)
    /\ LET i == input[Len(nodes) + 1]
       IN  /\ ~insert_full(pqs[1].len, pqs[1].size)
           /\ Return(pq_insert(Heap, 1, i), "insert", 1, i, NULL, <<>>)
    /\ UNCHANGED <<input, output, hts, loop>>

SortRemove ==
    /\ Len(pqs) = 1
    /\ Len(nodes) = Len(input)
    /\ pqs[1].len # 0
    /\ LET r == pq_remove(Heap, 1)
       IN  /\ Return(r.h, "remove", 1, NULL, r.ret, <<>>)
           /\ output' = Append(output, r.ret)
    /\ UNCHANGED <<input, hts, loop>>

SortNext ==
    \/ SortCreate
    \/ SortInsert
    \/ SortRemove

SortSpec == SortInit /\ [][SortNext]_vars

(* ------------------------------------------------------------------------ *)
(* The hash table of src/src/ht.c.  hts[t] is the struct _ht_t at address   *)
(* t, with the slots of the array ht_create allocates; ht_insert stores     *)
(* nothing yet, so len stays 0 and no _kv_pair is ever allocated.           *)
(* ------------------------------------------------------------------------ *)
FreedHt ==
    [st |-> "freed", len |-> 0, size |-> 0, equal |-> NULL, hash |-> NULL,
     slots |-> <<>>]

\* the keys and values a caller inserts
HtKeys == {1, 2}

\* H is the store of tables; the new table is block Len(H) + 1
ht_create(H, size, equal, hash) ==
    Append(H, [st |-> "live",
               len |-> 0,
               size |-> 0,
               equal |-> equal,
               hash |-> hash,
               slots |-> [i \in 0..(size - 1) |-> JUNK]])

\* `free(ht->arr[i])` for i < len, then the array and the struct
ht_destroy(H, t) == [H EXCEPT ![t] = FreedHt]

\* `ht->len + 1 >= ht->size`
ht_insert_full(len, size) == len + 1 >= size

\* the path past the check: the body of ht_insert is empty
ht_insert(H, t, k, v) == H

LiveHt == {t \in DOMAIN hts : hts[t].st = "live"}

\* arg is the requested size, ret the new table
HtCreate ==
    /\ Running
    /\ Len(hts) < HtMaxTables
    /\ \E size \in 0..HtMaxSize :
          /\ hts' = ht_create(hts, size, "equal", "hash")
          /\ Return(Heap, "ht_create", NULL, size, Len(hts) + 1, <<>>)
    /\ UNCHANGED <<input, output, loop>>

\* arg is the key, out the value
HtInsert ==
    /\ Running
    /\ \E t \in LiveHt, k \in HtKeys, v \in HtKeys :
          IF ht_insert_full(hts[t].len, hts[t].size)
          THEN /\ Abort("ht_insert", t,
                        "ht_error: New length %ld is greater than ht size %ld")
               /\ UNCHANGED hts
          ELSE /\ hts' = ht_insert(hts, t, k, v)
               /\ Return(Heap, "ht_insert", t, k, NULL, <<v>>)
    /\ UNCHANGED <<input, output, loop>>

HtDestroy ==
    /\ Running
    /\ \E t \in LiveHt :
          /\ hts' = ht_destroy(hts, t)
          /\ Return(Heap, "ht_destroy", t, NULL, NULL, <<>>)
    /\ UNCHANGED <<input, output, loop>>

HtNext ==
    \/ HtCreate
    \/ HtInsert
    \/ HtDestroy

HtSpec == Init /\ [][HtNext]_vars

(* ------------------------------------------------------------------------ *)
(* The loops of pq_insert, pq_remove and pq_print, one iteration per step.  *)
(* Of the queue only len matters to the control flow; every result of the   *)
(* caller's comparator is possible at every call, so nothing is assumed of  *)
(* it, not even that it is an order.  loop.pc is the loop the call is in,   *)
(* loop.op the public function, loop.idx and loop.len its idx and pq->len.  *)
(* ------------------------------------------------------------------------ *)
\* what a comparator can return, up to sign
CompareResults == {-1, 0, 1}

LoopFrame ==
    UNCHANGED <<pqs, arrs, nodes, calls, aborted, stderr, undefined, lastOp,
                input, output, hts>>

\* faulty variant: the index moves away from the root
sift_up_next_succ(idx) == idx + 1

\* `idx = UP(idx)`
sift_up_next(idx) == UP(idx)

\* `idx = is_left ? LEFT(idx) : RIGHT(idx)`
sift_down_next(idx, is_left) == IF is_left THEN LEFT(idx) ELSE RIGHT(idx)

\* pq_insert past its checks on a queue of len nodes: `idx = pq->len`, then
\* QUEUE increments len
LoopInsert ==
    /\ loop.pc = "idle"
    /\ \E len \in 0..(LoopMaxLen - 1) :
          loop' = [pc |-> "sift_up", op |-> "insert", idx |-> len,
                   len |-> len + 1]
    /\ LoopFrame

\* one evaluation of `idx > 0 && compare(i_node->val, arr[UP(idx)]->val) < 0`
\* and the iteration or the return that follows
SiftUpIter ==
    /\ loop.pc = "sift_up"
    /\ \E c \in CompareResults :
          IF loop.idx > 0 /\ c < 0
          THEN loop' = [loop EXCEPT !.idx = sift_up_next(@)]
          ELSE loop' = [loop EXCEPT !.pc = "done"]
    /\ LoopFrame

\* the body of pq_remove from DEQUEUE to the loop, on a queue whose len is
\* already decremented: it returns at once when the queue is now empty
remove_enter(l, op) ==
    IF l.len - 1 = 0
    THEN [l EXCEPT !.len = 0, !.idx = 0,
                   !.pc = IF op = "print" THEN "print" ELSE "done"]
    ELSE [l EXCEPT !.len = @ - 1, !.idx = 0, !.pc = "sift_down"]

\* pq_remove past its checks on a queue of len nodes
LoopRemove ==
    /\ loop.pc = "idle"
    /\ \E len \in 1..LoopMaxLen :
          loop' = remove_enter([LoopIdle EXCEPT !.op = "remove", !.len = len],
                               "remove")
    /\ LoopFrame

\* one evaluation of the condition of the sift-down loop and the iteration
\* or the return that follows; cl, cr and clr are the results of
\* compare(cur, left), compare(cur, right) and compare(left, right)
SiftDownIter ==
    /\ loop.pc = "sift_down"
    /\ \E cl \in CompareResults, cr \in CompareResults, clr \in CompareResults :
          IF \/ LEFT(loop.idx) < loop.len /\ cl > 0
             \/ RIGHT(loop.idx) < loop.len /\ cr > 0
          THEN LET is_left == RIGHT(loop.idx) >= loop.len \/ clr < 0
               IN  loop' = [loop EXCEPT !.idx = sift_down_next(@, is_left)]
          ELSE loop' = [loop EXCEPT
                          !.pc = IF loop.op = "print" THEN "print" ELSE "done"]
    /\ LoopFrame

\* pq_print past its checks on a queue of len nodes: cp = pq_copy(pq)
LoopPrint ==
    /\ loop.pc = "idle"
    /\ \E len \in 0..LoopMaxLen :
          loop' = [pc |-> "print", op |-> "print", idx |-> 0, len |-> len]
    /\ LoopFrame

\* one evaluation of `!pq_is_empty(cp)`: the call of pq_remove(cp) or the
\* end of the loop
PrintIter ==
    /\ loop.pc = "print"
    /\ IF loop.len # 0
       THEN loop' = remove_enter(loop, "print")
       ELSE loop' = [loop EXCEPT !.pc = "done"]
    /\ LoopFrame

\* the call has returned; the caller goes on
LoopReturn ==
    /\ loop.pc = "done"
    /\ loop' = LoopIdle
    /\ LoopFrame

LoopNext ==
    \/ LoopInsert
    \/ SiftUpIter
    \/ LoopRemove
    \/ SiftDownIter
    \/ LoopPrint
    \/ PrintIter
    \/ LoopReturn

\* a call that is running keeps executing: the code is sequential and
\* nothing in a loop body blocks
LoopSpec ==
    /\ Init
    /\ [][LoopNext]_vars
    /\ WF_vars(SiftUpIter)
    /\ WF_vars(SiftDownIter)
    /\ WF_vars(PrintIter)

(* ======================================================================== *)
(*                               Properties                                 *)
(* ======================================================================== *)
\* the occupied indices of queue q in the stores P
Occupied(P, q) == 0..(P[q].len - 1)

\* the nodes queue q holds in its occupied slots
Held(P, A, q) == {A[P[q].arr].slots[i] : i \in Occupied(P, q)}

\* the occupied slots of queue q are heap-ordered by its comparator
HeapOrdered(P, A, N, q) ==
    LET len == P[q].len
        slots == A[P[q].arr].slots
        Cmp(i, j) == compare(P[q].compare, N[slots[i]].val, N[slots[j]].val)
    IN  \A i \in 0..(len - 1) :
           /\ LEFT(i) < len => Cmp(i, LEFT(i)) <= 0
           /\ RIGHT(i) < len => Cmp(i, RIGHT(i)) <= 0

\* C1: after any sequence of pq_insert and pq_remove, every occupied slot of
\* the queue is ordered before both of its occupied children by the
\* comparator: compare(arr[i], arr[2i+1]) <= 0 and compare(arr[i], arr[2i+2]) <= 0.
HeapInvariant == \A q \in Live : HeapOrdered(pqs, arrs, nodes, q)

\* a pq_remove on a queue of five nodes has left four nodes of two
\* different priorities, with a node other than the first inserted at the root
HeapInvariantWitness ==
    /\ lastOp.op = "remove"
    /\ Returned
    /\ pqs[1].len = 4
    /\ Cardinality({nodes[n].val : n \in Held(pqs, arrs, 1)}) = 2
    /\ ArrOf(Heap, 1)[0] # 1

\* s is ordered by the comparator func
Ordered(func, s) ==
    \A k \in 1..(Len(s) - 1) : compare(func, s[k], s[k + 1]) <= 0

\* the number of occurrences of v in s
Count(s, v) == Cardinality({k \in 1..Len(s) : s[k] = v})

\* C2: inserting n <= capacity values into an empty queue and then removing
\* n times returns the values in non-decreasing priority order, each inserted
\* value once; [5,3,8,1,9] with ascending priority comes out as [1,3,5,8,9].
HeapSortProperty ==
    Len(pqs) = 1 =>
        /\ Ordered(pqs[1].compare, output)
        /\ \A v \in 1..9 : Count(output, v) <= Count(input, v)
        /\ pqs[1].len = 0 /\ Len(nodes) = Len(input) =>
              \A v \in 1..9 : Count(output, v) = Count(input, v)
        /\ input = SortExample /\ pqs[1].compare = "asc" /\ Len(output) = 5 =>
              output = <<1, 3, 5, 8, 9>>

HeapSortWitness ==
    /\ input = SortExample
    /\ output = <<1, 3, 5, 8, 9>>
    /\ pqs[1].len = 0

\* the number of occupied slots of live queues that hold node n
Holders(P, A, n) ==
    Cardinality({qi \in {q \in DOMAIN P : P[q].st = "live"} \X (0..MaxSize) :
                    /\ qi[2] < P[qi[1]].len
                    /\ A[P[qi[1]].arr].slots[qi[2]] = n})

\* C3: the `copies` field of every allocated node equals the number of live
\* queues that hold the node in an occupied slot.
RefCountInvariant ==
    \A n \in DOMAIN nodes :
        nodes[n].st = "alloc" => nodes[n].copies = Holders(pqs, arrs, n)

\* one node is held by two queues, one by a single queue, and one was removed
\* from the only queue that held it
RefCountWitness ==
    /\ \E n \in DOMAIN nodes : nodes[n].st = "alloc" /\ nodes[n].copies = 2
    /\ \E n \in DOMAIN nodes : nodes[n].st = "alloc" /\ nodes[n].copies = 1
    /\ \E n \in DOMAIN nodes : nodes[n].st = "alloc" /\ nodes[n].copies = 0

\* the live queues other than q that hold node n in an occupied slot
OtherHolders(q, n) == {r \in Live \ {q} : n \in Held(pqs, arrs, r)}

\* free_func has been invoked at most once on a node, and on no node that a
\* live queue still holds
SharedReleaseInv ==
    \A n \in DOMAIN nodes :
        /\ calls[n] <= 1
        /\ calls[n] = 1 => Holders(pqs, arrs, n) = 0 /\ nodes[n].st = "freed"

\* pq_destroy(q, free_func) invokes free_func on exactly the nodes of q that
\* no other live queue holds; no other call invokes it
SharedReleaseStep ==
    \A n \in DOMAIN nodes :
        calls'[n] = calls[n] +
            (IF /\ lastOp'.op = "destroy"
                /\ Returned'
                /\ lastOp'.arg
                /\ n \in Held(pqs, arrs, lastOp'.q)
                /\ OtherHolders(lastOp'.q, n) = {}
             THEN 1 ELSE 0)

NoZeroCountNode ==
    \A n \in DOMAIN nodes : nodes[n].st = "alloc" => nodes[n].copies > 0

\* 0 <= len <= size, and the array has size slots
CapacityInv ==
    \A q \in Live :
        /\ 0 <= pqs[q].len
        /\ pqs[q].len <= pqs[q].size
        /\ DOMAIN ArrOf(Heap, q) = 0..(pqs[q].size - 1)

\* size is set by pq_create, inherited by pq_copy and never changes
CapacityStep ==
    /\ \A q \in Live : pqs'[q].st = "live" => pqs'[q].size = pqs[q].size
    /\ lastOp'.op = "create" /\ Returned' =>
          pqs'[lastOp'.ret].size = lastOp'.arg
    /\ lastOp'.op = "copy" /\ Returned' =>
          pqs'[lastOp'.ret].size = pqs[lastOp'.q].size

\* C6: the capacity of a queue is fixed by pq_create or inherited by pq_copy
\* and never changes, and 0 <= len <= size in every reachable state.
CapacityBound == []CapacityInv /\ [][CapacityStep]_vars

\* a full queue of capacity at least 2 has been copied
CapacityBoundWitness ==
    /\ lastOp.op = "copy"
    /\ Returned
    /\ pqs[lastOp.ret].size >= 2
    /\ pqs[lastOp.ret].len = pqs[lastOp.ret].size
    /\ pqs[lastOp.q].len = pqs[lastOp.q].size

\* C7: pq_insert on a queue aborts if and only if len = size at the call,
\* whatever the value; on the fatal path no node is created and the queue is
\* unchanged; otherwise len grows by one and one node is created.  So the
\* first C inserts into a queue of capacity C succeed and the next aborts.
InsertFullFatal ==
    [][lastOp'.op = "insert" /\ lastOp'.q \in Live =>
          LET q == lastOp'.q
          IN  /\ aborted' <=> pqs[q].len = pqs[q].size
              /\ aborted' => /\ nodes' = nodes
                             /\ pqs' = pqs
                             /\ arrs' = arrs
                             /\ stderr' # ""
              /\ Returned' => /\ pqs'[q].len = pqs[q].len + 1
                              /\ Len(nodes') = Len(nodes) + 1]_vars

\* an insert into a full queue of capacity at least 2 has aborted
InsertFullFatalWitness ==
    /\ aborted
    /\ lastOp.op = "insert"
    /\ lastOp.q # NULL
    /\ pqs[lastOp.q].size >= 2
    /\ pqs[lastOp.q].len = pqs[lastOp.q].size

\* C8: a pq_insert or pq_remove on one queue leaves the len and the handle
\* array of every other live queue unchanged, copies and sources included.
CopyIndependence ==
    [][lastOp'.op \in {"insert", "remove"} =>
          \A r \in Live \ {lastOp'.q} :
              /\ pqs'[r] = pqs[r]
              /\ arrs'[pqs[r].arr] = arrs[pqs[r].arr]]_vars

\* a pq_remove has taken a node out of one of two queues that shared it and
\* that still share another node
CopyIndependenceWitness ==
    /\ lastOp.op = "remove"
    /\ Returned
    /\ \E r \in Live \ {lastOp.q} :
          /\ pqs[r].len = pqs[lastOp.q].len + 1
          /\ Held(pqs, arrs, lastOp.q) # {}
          /\ Held(pqs, arrs, lastOp.q) \subseteq Held(pqs, arrs, r)

\* C9: pq_copy returns a new live queue with the capacity, comparator and len
\* of the source and an array of its own whose slot i < len holds the node of
\* the source's slot i; the count of each such node grows by one, nothing
\* else changes, and the copy is heap-ordered whenever the source is.
CopyResult ==
    [][lastOp'.op = "copy" /\ Returned' =>
          LET src == lastOp'.q
              cp == lastOp'.ret
          IN  /\ cp \notin DOMAIN pqs
              /\ pqs'[cp].st = "live"
              /\ pqs'[cp].size = pqs[src].size
              /\ pqs'[cp].compare = pqs[src].compare
              /\ pqs'[cp].len = pqs[src].len
              /\ pqs'[cp].arr # pqs[src].arr
              /\ \A i \in Occupied(pqs, src) :
                    ArrOf(Heap, src)[i] = arrs'[pqs'[cp].arr].slots[i]
              /\ \A n \in DOMAIN nodes :
                    nodes'[n] =
                        IF n \in Held(pqs, arrs, src)
                        THEN [nodes[n] EXCEPT !.copies = @ + 1]
                        ELSE nodes[n]
              /\ Len(nodes') = Len(nodes)
              /\ \A q \in DOMAIN pqs : pqs'[q] = pqs[q]
              /\ \A a \in DOMAIN arrs : arrs'[a] = arrs[a]
              /\ HeapOrdered(pqs, arrs, nodes, src) =>
                    HeapOrdered(pqs', arrs', nodes', cp)]_vars

\* a queue of at least two nodes has been copied
CopyResultWitness ==
    /\ lastOp.op = "copy"
    /\ Returned
    /\ pqs[lastOp.ret].len >= 2
    /\ \A n \in Held(pqs, arrs, lastOp.ret) : nodes[n].copies = 2

\* C10: pq_print leaves the len, the contents and the order of the handle
\* array of the queue unchanged, the empty queue included.
PrintNonMutation ==
    [][lastOp'.op = "print" /\ Returned' =>
          LET q == lastOp'.q
          IN  /\ pqs'[q] = pqs[q]
              /\ arrs'[pqs[q].arr] = arrs[pqs[q].arr]]_vars

\* a queue of at least two nodes has been printed
PrintNonMutationWitness ==
    /\ lastOp.op = "print"
    /\ Returned
    /\ pqs[lastOp.q].len >= 2
    /\ Len(lastOp.out) = 2 * pqs[lastOp.q].len - 1

\* the values repeated pq_remove returns until queue q of heap h is empty
RECURSIVE Drain(_, _)
Drain(h, q) ==
    IF h.pqs[q].len = 0
    THEN <<>>
    ELSE LET r == pq_remove(h, q)
         IN  <<r.ret>> \o Drain(r.h, q)

\* C11: for a queue of n elements pq_print emits the renderings of all n
\* elements in the order in which repeated pq_remove on a copy returns them
\* (priority order), separated by single spaces, with n-1 separators and no
\* trailing separator; for an empty queue it emits nothing.  (The queue is
\* as it was before the call: pq_print does not change it.)
PrintOutput ==
    lastOp.op = "print" /\ Returned =>
        LET q == lastOp.q
            n == pqs[q].len
            out == lastOp.out
            drained == Drain(pq_copy(Heap, q), Len(pqs) + 1)
        IN  /\ Len(drained) = n
            /\ Ordered(pqs[q].compare, drained)
            /\ \A v \in Values :
                  Count(drained, v) =
                      Cardinality({i \in Occupied(pqs, q) :
                                      ValAt(Heap, ArrOf(Heap, q), i) = v})
            /\ Len(out) = IF n = 0 THEN 0 ELSE 2 * n - 1
            /\ \A k \in 1..n : out[2 * k - 1] = to_str(drained[k])
            /\ \A k \in 1..(n - 1) : out[2 * k] = " "

\* a queue of three elements of at least two priorities has been printed
PrintOutputWitness ==
    /\ lastOp.op = "print"
    /\ Returned
    /\ pqs[lastOp.q].len = 3
    /\ Len(lastOp.out) = 5
    /\ lastOp.out[1] # lastOp.out[5]

\* C12: pq_peek on a non-empty queue returns the value of the node at index
\* 0, which no value held in the queue outranks (compare(peeked, x) <= 0)
\* and which is the value the next pq_remove returns; it changes neither
\* len, the array, nor any reference count.
PeekResult ==
    [][lastOp'.op = "peek" /\ Returned' =>
          LET q == lastOp'.q
              peeked == lastOp'.ret
          IN  /\ peeked = nodes[ArrOf(Heap, q)[0]].val
              /\ \A n \in Held(pqs, arrs, q) :
                    compare(pqs[q].compare, peeked, nodes[n].val) <= 0
              /\ peeked = pq_remove(Heap, q).ret
              /\ pqs' = pqs
              /\ arrs' = arrs
              /\ nodes' = nodes
              /\ calls' = calls]_vars

\* a queue of three nodes of at least two priorities has been peeked
PeekResultWitness ==
    /\ lastOp.op = "peek"
    /\ Returned
    /\ pqs[lastOp.q].len = 3
    /\ \E n \in Held(pqs, arrs, lastOp.q) : nodes[n].val # lastOp.ret

\* the number of occupied slots of queue q that hold node n
SlotCount(P, A, q, n) ==
    Cardinality({i \in Occupied(P, q) : A[P[q].arr].slots[i] = n})

\* C13: pq_remove on a non-empty queue returns the value of the former root,
\* which no held value outranks, decrements len by exactly one, decrements
\* that node's count by exactly one, and leaves the queue holding the
\* previous multiset of nodes minus the removed node: no other node is lost
\* or duplicated in the occupied slots.
RemoveResult ==
    [][lastOp'.op = "remove" /\ Returned' =>
          LET q == lastOp'.q
              top == ArrOf(Heap, q)[0]
          IN  /\ lastOp'.ret = nodes[top].val
              /\ \A n \in Held(pqs, arrs, q) :
                    compare(pqs[q].compare, lastOp'.ret, nodes[n].val) <= 0
              /\ pqs'[q].len = pqs[q].len - 1
              /\ nodes'[top].copies = nodes[top].copies - 1
              /\ \A n \in DOMAIN nodes \ {top} : nodes'[n] = nodes[n]
              /\ \A n \in DOMAIN nodes :
                    SlotCount(pqs', arrs', q, n) =
                        SlotCount(pqs, arrs, q, n)
                            - (IF n = top THEN 1 ELSE 0)]_vars

\* the root of a queue of three nodes of at least two priorities has been
\* removed, and another live queue still holds that node
RemoveResultWitness ==
    /\ lastOp.op = "remove"
    /\ Returned
    /\ pqs[lastOp.q].len = 2
    /\ \E n \in Held(pqs, arrs, lastOp.q) : nodes[n].val # lastOp.ret
    /\ \E r \in Live \ {lastOp.q} :
          /\ pqs[r].len = 3
          /\ \E n \in Held(pqs, arrs, r) \ Held(pqs, arrs, lastOp.q) :
                nodes[n].val = lastOp.ret /\ nodes[n].copies = 1

\* the public operations that take a queue
QueueOps ==
    {"copy", "insert", "peek", "remove", "len", "size", "is_empty", "print",
     "destroy"}

\* C14 (as claimed): every public queue operation called with a NULL queue
\* terminates the process through the diagnostic-then-abort path, never by
\* going on to dereference the queue.
NullFailFast ==
    lastOp.op \in QueueOps /\ lastOp.q = NULL =>
        /\ aborted
        /\ stderr # ""
        /\ ~undefined

\* C15: pq_peek and pq_remove abort with a diagnostic if and only if
\* len = 0 at the call, on a freshly created queue and on a queue drained
\* back to empty alike, and the abort changes no state; pq_create aborts only
\* for a NULL comparator, before any queue is allocated.
EmptyBoundary ==
    [][/\ lastOp'.op \in {"peek", "remove"} /\ lastOp'.q \in Live =>
             /\ aborted' <=> pqs[lastOp'.q].len = 0
             /\ aborted' => /\ stderr' # ""
                            /\ pqs' = pqs
                            /\ arrs' = arrs
                            /\ nodes' = nodes
                            /\ calls' = calls
       /\ lastOp'.op = "create" =>
             /\ aborted' => /\ stderr' # ""
                            /\ pqs' = pqs
                            /\ arrs' = arrs
                            /\ nodes' = nodes
             /\ ~aborted' => /\ Len(pqs') = Len(pqs) + 1
                             /\ pqs'[lastOp'.ret].compare \in Comparators]_vars

\* pq_remove has aborted on a queue that held two nodes and was drained
EmptyBoundaryWitness ==
    /\ aborted
    /\ lastOp.op = "remove"
    /\ Len(pqs) = 1
    /\ lastOp.q = 1
    /\ pqs[1].len = 0
    /\ Len(nodes) = 2
    /\ \A n \in DOMAIN nodes : nodes[n].copies = 0

\* the lifecycle states of queue q in the store P
IsDestroyed(P, q) == P[q].st = "freed"
IsFull(P, q) == P[q].st = "live" /\ P[q].len = P[q].size
IsPopulated(P, q) == P[q].st = "live" /\ 0 < P[q].len /\ P[q].len < P[q].size
IsCreated(P, q) == P[q].st = "live" /\ P[q].len = 0

\* C16 (as claimed): every queue starts as Created(empty); the only
\* successful operation on a Full queue that changes its length is remove,
\* which leads to Populated; Full is entered only by insert from Populated;
\* Destroyed is terminal.
LifecycleAsClaimed ==
    [][\A q \in DOMAIN pqs' :
          /\ q \notin DOMAIN pqs =>
                IsCreated(pqs', q) /\ ~IsFull(pqs', q)
          /\ q \in DOMAIN pqs /\ IsFull(pqs, q) /\ pqs'[q].st = "live"
                /\ pqs'[q].len # pqs[q].len =>
                /\ lastOp'.op = "remove"
                /\ IsPopulated(pqs', q)
          /\ q \in DOMAIN pqs /\ ~IsFull(pqs, q) /\ IsFull(pqs', q) =>
                /\ lastOp'.op = "insert"
                /\ IsPopulated(pqs, q)
          /\ q \in DOMAIN pqs /\ IsDestroyed(pqs, q) =>
                IsDestroyed(pqs', q)]_vars

\* C16: a queue is born by pq_create with length 0 (Full at once when the
\* capacity is 0) or by pq_copy with the length of its source; from then on
\* its length changes only by +1 in a successful pq_insert and by -1 in a
\* successful pq_remove on it; the only successful operation on a Full queue
\* that changes its length is remove, which leaves length = capacity - 1;
\* an existing queue becomes Full only by an insert at length =
\* capacity - 1; only pq_destroy on it destroys a queue, and Destroyed is
\* terminal: the freed struct never changes and no call on it returns.
Lifecycle ==
    [][/\ \A q \in DOMAIN pqs' \ DOMAIN pqs :
             /\ lastOp'.op \in {"create", "copy"}
             /\ lastOp'.ret = q
             /\ pqs'[q].st = "live"
             /\ lastOp'.op = "create" => pqs'[q].len = 0
             /\ lastOp'.op = "copy" => pqs'[q].len = pqs[lastOp'.q].len
       /\ \A q \in Live :
             /\ pqs'[q].st = "live" /\ pqs'[q].len # pqs[q].len =>
                   /\ lastOp'.q = q
                   /\ Returned'
                   /\ \/ lastOp'.op = "insert" /\ pqs'[q].len = pqs[q].len + 1
                      \/ lastOp'.op = "remove" /\ pqs'[q].len = pqs[q].len - 1
             /\ IsFull(pqs, q) /\ pqs'[q].st = "live"
                   /\ pqs'[q].len # pqs[q].len =>
                   /\ lastOp'.op = "remove"
                   /\ pqs'[q].len = pqs[q].size - 1
             /\ ~IsFull(pqs, q) /\ IsFull(pqs', q) =>
                   /\ lastOp'.op = "insert"
                   /\ pqs[q].len = pqs[q].size - 1
             /\ lastOp'.op = "destroy" /\ lastOp'.q = q /\ Returned' =>
                   IsDestroyed(pqs', q)
             /\ IsDestroyed(pqs', q) =>
                   lastOp'.op = "destroy" /\ lastOp'.q = q
       /\ \A q \in Freed :
             /\ pqs'[q] = pqs[q]
             /\ lastOp'.q = q /\ lastOp'.op \in QueueOps =>
                   ~Returned']_vars

\* a queue of capacity 1 that was Full has been emptied by pq_remove, next
\* to a Full queue that pq_copy made and a destroyed queue
LifecycleWitness ==
    /\ lastOp.op = "remove"
    /\ Returned
    /\ pqs[lastOp.q].size = 1
    /\ pqs[lastOp.q].len = 0
    /\ \E n \in DOMAIN nodes : nodes[n].copies = 1
    /\ \E r \in Live \ {lastOp.q} : IsFull(pqs, r) /\ pqs[r].size = 1

\* C17 (as claimed): any operation invoked on an already-destroyed queue is
\* detected at once and terminates the process with a diagnostic, as for a
\* NULL queue; it never reads or changes the freed struct, its array or its
\* nodes.
DestroyedHandleDetected ==
    [][lastOp'.op \in QueueOps /\ lastOp'.q \in Freed =>
          /\ aborted'
          /\ stderr' # ""
          /\ ~undefined'
          /\ pqs' = pqs
          /\ arrs' = arrs
          /\ nodes' = nodes]_vars

HtCreateCapacity ==
    /\ lastOp.op = "ht_create" =>
          /\ hts[lastOp.ret].len = 0
          /\ hts[lastOp.ret].size = lastOp.arg
    /\ \A t \in LiveHt :
          hts[t].size = Cardinality(DOMAIN hts[t].slots)
    /\ lastOp.op = "ht_insert" /\ lastOp.q \in LiveHt
          /\ hts[lastOp.q].len = 0
          /\ Cardinality(DOMAIN hts[lastOp.q].slots) >= 2 => ~aborted

\* the iterations of the sift-down loop of a pq_remove on queue q, which
\* holds at least two nodes
SiftDownSteps(q) ==
    LET len == pqs[q].len - 1
        slots == ArrOf(Heap, q)
    IN  remove_trace(Heap, pqs[q].compare, [slots EXCEPT ![0] = slots[len]],
                     len, 0)

\* in iteration s the node at s.idx changed places with its left child
SwappedLeft(s) ==
    /\ s.swapped[s.idx] = s.slots[LEFT(s.idx)]
    /\ s.swapped[LEFT(s.idx)] = s.slots[s.idx]

\* in iteration s the node at s.idx changed places with its right child
SwappedRight(s) ==
    /\ s.swapped[s.idx] = s.slots[RIGHT(s.idx)]
    /\ s.swapped[RIGHT(s.idx)] = s.slots[s.idx]

\* in iteration s of a loop over len slots both children are occupied, tie
\* with each other and both strictly outrank the node at s.idx
TieBelow(func, s, len) ==
    /\ RIGHT(s.idx) < len
    /\ compare(func, ValAt(Heap, s.slots, LEFT(s.idx)),
                     ValAt(Heap, s.slots, RIGHT(s.idx))) = 0
    /\ compare(func, ValAt(Heap, s.slots, s.idx),
                     ValAt(Heap, s.slots, LEFT(s.idx))) > 0
    /\ compare(func, ValAt(Heap, s.slots, s.idx),
                     ValAt(Heap, s.slots, RIGHT(s.idx))) > 0

ChildOutranks(func, slots, len, idx) ==
    \E c \in {LEFT(idx), RIGHT(idx)} :
        /\ c < len
        /\ compare(func, ValAt(Heap, slots, idx), ValAt(Heap, slots, c)) > 0

\* the child position iteration s swapped the node at s.idx with
SwappedChild(s) == IF SwappedLeft(s) THEN LEFT(s.idx) ELSE RIGHT(s.idx)

\* C21: during pq_remove a swap happens at a position if and only if at
\* least one occupied child strictly outranks the current node; the child
\* swapped up strictly outranks the current node and is not outranked by
\* its occupied sibling; sifting starts at the root, continues from the
\* chosen child's index and stops where no occupied child outranks the
\* current node.
SiftDownStep ==
    [][lastOp'.op = "remove" /\ Returned' /\ pqs[lastOp'.q].len >= 2 =>
          LET q == lastOp'.q
              func == pqs[q].compare
              len == pqs[q].len - 1
              steps == SiftDownSteps(q)
              n == Len(steps)
              last == IF n = 0 THEN 0 ELSE SwappedChild(steps[n])
              final == arrs'[pqs[q].arr].slots
          IN  /\ \A k \in 1..n :
                    LET s == steps[k]
                        c == SwappedChild(s)
                        sib == IF c = LEFT(s.idx) THEN RIGHT(s.idx)
                               ELSE LEFT(s.idx)
                    IN  /\ ChildOutranks(func, s.slots, len, s.idx)
                        /\ SwappedLeft(s) \/ SwappedRight(s)
                        /\ c < len
                        /\ compare(func, ValAt(Heap, s.slots, s.idx),
                                         ValAt(Heap, s.slots, c)) > 0
                        /\ sib < len =>
                              compare(func, ValAt(Heap, s.slots, sib),
                                            ValAt(Heap, s.slots, c)) >= 0
                        /\ s.idx = IF k = 1 THEN 0
                                   ELSE SwappedChild(steps[k - 1])
                        /\ \A i \in 0..(len - 1) \ {s.idx, c} :
                              s.swapped[i] = s.slots[i]
                        /\ k < n => steps[k + 1].slots = s.swapped
              /\ n > 0 => final = steps[n].swapped
              /\ ~ChildOutranks(func, final, len, last)]_vars

\* after the inserts 1, 1, 2, 1, 2 with ascending priority, pq_remove has
\* sifted the last node down twice: below the left child of the root, then
\* below that position's only occupied child
SiftDownStepWitness ==
    /\ lastOp.op = "remove"
    /\ Returned
    /\ pqs[1].compare = "asc"
    /\ pqs[1].len = 4
    /\ Len(nodes) = 5
    /\ [n \in 1..5 |-> nodes[n].val] = <<1, 1, 2, 1, 2>>
    /\ [i \in 1..4 |-> ArrOf(Heap, 1)[i - 1]] = <<2, 4, 3, 5>>

\* the iterations of the sift-up loop of the pq_insert that has just put
\* node new into queue q
SiftUpSteps(q, new) ==
    insert_trace([Heap EXCEPT !.nodes = nodes'], pqs[q].compare, new,
                 [ArrOf(Heap, q) EXCEPT ![pqs[q].len] = new], pqs[q].len)

\* C22: pq_insert places the new node at index len (before the increment)
\* and swaps it with its parent at (i-1)/2 only while
\* compare(new, parent) < 0, exchanging node handles and never node values;
\* it stops at the root or at the first parent of equal or higher priority,
\* so the new node never moves above an equal-priority ancestor and every
\* other node keeps its value and count.
SiftUpStep ==
    [][lastOp'.op = "insert" /\ Returned' =>
          LET q == lastOp'.q
              func == pqs[q].compare
              new == Len(nodes) + 1
              steps == SiftUpSteps(q, new)
              n == Len(steps)
              last == IF n = 0 THEN pqs[q].len ELSE UP(steps[n].idx)
              final == arrs'[pqs[q].arr].slots
              Val(m) == nodes'[m].val
          IN  /\ \A m \in DOMAIN nodes : nodes'[m] = nodes[m]
              /\ Val(new) = lastOp'.arg
              /\ \A k \in 1..n :
                    LET s == steps[k]
                    IN  /\ s.idx = IF k = 1 THEN pqs[q].len
                                   ELSE UP(steps[k - 1].idx)
                        /\ s.idx > 0
                        /\ UP(s.idx) = (s.idx - 1) \div 2
                        /\ s.slots[s.idx] = new
                        /\ compare(func, Val(new), Val(s.slots[UP(s.idx)])) < 0
                        /\ s.swapped[UP(s.idx)] = new
                        /\ s.swapped[s.idx] = s.slots[UP(s.idx)]
                        /\ \A i \in 0..pqs[q].len \ {s.idx, UP(s.idx)} :
                              s.swapped[i] = s.slots[i]
                        /\ k < n => steps[k + 1].slots = s.swapped
              /\ final = IF n = 0
                         THEN [ArrOf(Heap, q) EXCEPT ![pqs[q].len] = new]
                         ELSE steps[n].swapped
              /\ final[last] = new
              /\ \/ last = 0
                 \/ compare(func, Val(new), Val(final[UP(last)])) >= 0]_vars

\* after four inserts of 2 with ascending priority, the insert of 1 has
\* climbed from index 4 past its parent at index 1 to the root
SiftUpStepWitness ==
    /\ lastOp.op = "insert"
    /\ Returned
    /\ pqs[1].compare = "asc"
    /\ pqs[1].len = 5
    /\ [n \in 1..5 |-> nodes[n].val] = <<2, 2, 2, 2, 1>>
    /\ [i \in 1..5 |-> ArrOf(Heap, 1)[i - 1]] = <<5, 1, 3, 4, 2>>

\* C23: every successful pq_insert creates one fresh node with count 1,
\* distinct from every existing node and held by one slot of that queue
\* only, even when the same value is already held by this queue or by
\* another; no other call creates a node, and the count of a node grows
\* only in pq_copy, so nodes become shared only through pq_copy.
FreshNode ==
    [][/\ lastOp'.op = "insert" /\ Returned' =>
             LET q == lastOp'.q
                 new == Len(nodes) + 1
             IN  /\ DOMAIN nodes' = DOMAIN nodes \cup {new}
                 /\ new \notin DOMAIN nodes
                 /\ nodes'[new] =
                       [st |-> "alloc", copies |-> 1, val |-> lastOp'.arg]
                 /\ SlotCount(pqs', arrs', q, new) = 1
                 /\ Holders(pqs', arrs', new) = 1
                 /\ \A m \in DOMAIN nodes : nodes'[m] = nodes[m]
       /\ ~(lastOp'.op = "insert" /\ Returned') => DOMAIN nodes' = DOMAIN nodes
       /\ \A m \in DOMAIN nodes :
             nodes'[m].copies > nodes[m].copies =>
                 /\ lastOp'.op = "copy"
                 /\ Returned'
                 /\ m \in Held(pqs, arrs, lastOp'.q)]_vars

\* three inserts of one value, two into one queue and one into another,
\* have made three nodes of count 1
FreshNodeWitness ==
    /\ lastOp.op = "insert"
    /\ Returned
    /\ Len(nodes) = 3
    /\ \A n \in DOMAIN nodes :
          /\ nodes[n].st = "alloc"
          /\ nodes[n].copies = 1
          /\ nodes[n].val = lastOp.arg
    /\ pqs[lastOp.q].len = 2
    /\ \E r \in Live \ {lastOp.q} : pqs[r].len = 1

\* a call is inside one of the three loops
InLoop == loop.pc \in {"sift_up", "sift_down", "print"}

\* an iteration of the sift-up loop strictly decreases idx and keeps it at
\* least 0; an iteration of the sift-down loop strictly increases idx and
\* keeps it below len, so idx is the index of an occupied slot throughout;
\* an iteration of the loop of pq_print takes one element from the copy
LoopVariant ==
    /\ loop.pc = "sift_up" /\ loop'.pc = "sift_up" =>
          0 <= loop'.idx /\ loop'.idx < loop.idx
    /\ loop.pc = "sift_down" /\ loop'.pc = "sift_down" =>
          loop.idx < loop'.idx /\ loop'.idx < loop.len
    /\ loop.pc \in {"sift_up", "sift_down"} =>
          0 <= loop.idx /\ loop.idx < loop.len
    /\ loop.pc = "print" /\ loop'.pc # "done" =>
          loop'.len = loop.len - 1 /\ loop'.len >= 0

\* C24: every call of pq_insert and pq_remove that passes its checks
\* completes: the sift-up loop strictly decreases the index toward 0 and
\* the sift-down loop strictly increases it below len, whatever the
\* comparator returns; pq_print completes because each iteration removes
\* one element from the transient copy.
Termination == [][LoopVariant]_vars /\ (InLoop ~> loop.pc = "done")

\* a pq_remove has returned after its sift-down loop went three levels down
TerminationWitness ==
    /\ loop.pc = "done"
    /\ loop.op = "remove"
    /\ loop.idx >= 7

\* C25: pq_print is reference-count neutral: when it returns, every node
\* has the count it had before the call, no node has been freed and no
\* release callback has been invoked; the increments of the transient copy
\* are cancelled one by one by its removes, and its destroy finds no
\* occupied slot.
PrintRefNeutral ==
    [][lastOp'.op = "print" /\ Returned' =>
          LET q == lastOp'.q
              cp == Len(pqs) + 1
              copied == pq_copy(Heap, q)
              drained == print_loop(copied, cp, <<>>).h
          IN  /\ nodes' = nodes
              /\ calls' = calls
              /\ \A n \in DOMAIN nodes :
                    /\ copied.nodes[n].copies =
                          nodes[n].copies +
                              (IF n \in Held(pqs, arrs, q) THEN 1 ELSE 0)
                    /\ drained.nodes[n] = nodes[n]
              /\ drained.pqs[cp].len = 0
              /\ drained.calls = calls
              /\ \A r \in Live :
                    Held(pqs', arrs', r) = Held(pqs, arrs, r)]_vars

\* a queue has been printed that holds a node it shares with another live
\* queue and a node of its own
PrintRefNeutralWitness ==
    /\ lastOp.op = "print"
    /\ Returned
    /\ \E n \in Held(pqs, arrs, lastOp.q) : nodes[n].copies = 2
    /\ \E n \in Held(pqs, arrs, lastOp.q) : nodes[n].copies = 1
    /\ Len(lastOp.out) >= 3

\* every node in an occupied slot of a live queue is allocated
HeldAllocated ==
    \A q \in Live : \A n \in Held(pqs, arrs, q) : nodes[n].st = "alloc"

\* a freed node is never touched again, and a node is freed only by a
\* pq_destroy of a live queue that holds its last reference
FreedOnce ==
    \A n \in DOMAIN nodes :
        /\ nodes[n].st = "freed" =>
              nodes'[n] = nodes[n] /\ calls'[n] = calls[n]
        /\ nodes[n].st = "alloc" /\ nodes'[n].st = "freed" =>
              /\ lastOp'.op = "destroy"
              /\ Returned'
              /\ lastOp'.q \in Live
              /\ SlotCount(pqs, arrs, lastOp'.q, n) = 1
              /\ nodes[n].copies = 1
              /\ OtherHolders(lastOp'.q, n) = {}

\* C26: in every state reachable by create, insert, remove, copy and
\* destroy on live queues, every node referenced from an occupied slot
\* (index < len) of a live queue is still allocated, and no node wrapper is
\* ever freed twice.
NoUseAfterFree == []HeldAllocated /\ [][FreedOnce]_vars

\* pq_destroy has freed a node of the destroyed queue while a live queue
\* still holds a node the two shared, now with count 1
NoUseAfterFreeWitness ==
    /\ lastOp.op = "destroy"
    /\ Returned
    /\ lastOp.ret = 2
    /\ \E n \in DOMAIN nodes : nodes[n].st = "freed"
    /\ \E r \in Live : \E n \in Held(pqs, arrs, r) :
          nodes[n].st = "alloc" /\ nodes[n].copies = 1
                /\ \E m \in DOMAIN nodes : m > n /\ nodes[m].st = "freed"

====
